---- MODULE Spec2Model ----
(***************************************************************************)
(* Control valve sizing wizard (aseemm84/valve_sizing).                    *)
(*                                                                         *)
(* Python floats are modelled as decimal fixed-point numbers: the integer  *)
(* n stands for the real n / Scale.  Products and quotients are truncated  *)
(* toward zero at that resolution (a float rounds at its own resolution),  *)
(* and the special floats nan and -inf, which numpy produces instead of    *)
(* raising, are kept as separate values of the record type Float.          *)
(***************************************************************************)
EXTENDS Integers, Sequences, FiniteSets, TLC

VARIABLES
    call,        \* which calculator the harness has applied ("none" before the call)
    args,        \* the data dict handed to the calculator
    ret,         \* what the call produced: a result dict or the exception raised
    session,     \* st.session_state: a dict, its keys appear and disappear
    edited,      \* history: FL or Kc was typed into the current step2_data
    edits,       \* history: widget edits made in steps 1 and 2
    backs        \* history: Back buttons clicked

fnVars == <<call, args, ret>>
wizVars == <<session, edited, edits, backs>>
vars == <<call, args, ret, session, edited, edits, backs>>

-----------------------------------------------------------------------------
(* Fixed-point arithmetic *)

Root == 10 ^ 2
Scale == Root * Root

Abs(a) == IF a < 0 THEN -a ELSE a
Sgn(a) == IF a < 0 THEN -1 ELSE IF a > 0 THEN 1 ELSE 0

\* the largest integer the arithmetic below may form
MaxInt == 2 ^ 30 + (2 ^ 30 - 1)

\* <<q, r>> with a * n = q * d + r and 0 <= r < d, for a, n >= 0 and d > 0:
\* directly where a * n can be formed, else by binary long multiplication so
\* that no intermediate exceeds the result.
RECURSIVE MulDivQR(_, _, _)
MulDivQR(a, n, d) ==
    IF n = 0 \/ a <= MaxInt \div n THEN <<(a * n) \div d, (a * n) % d>>
    ELSE LET h == MulDivQR(a, n \div 2, d)
             t == 2 * h[2]
             q2 == 2 * h[1] + (t \div d)
             r2 == t % d
             u == r2 + (a % d)
         IN  IF n % 2 = 0 THEN <<q2, r2>>
             ELSE <<q2 + (a \div d) + (u \div d), u % d>>

\* a * n / d truncated toward zero.
MulDiv(a, n, d) ==
    Sgn(a) * Sgn(n) * Sgn(d) * MulDivQR(Abs(a), Abs(n), Abs(d))[1]

FxMul(a, b) == MulDiv(a, b, Scale)
FxDiv(a, b) == MulDiv(a, Scale, b)

\* floor of the square root of the integer n >= 0
RECURSIVE ISqrtIn(_, _, _)
ISqrtIn(n, lo, hi) ==
    IF lo >= hi THEN lo
    ELSE LET mid == (lo + hi + 1) \div 2
         IN  IF mid * mid <= n THEN ISqrtIn(n, mid, hi) ELSE ISqrtIn(n, lo, mid - 1)

ISqrt(n) == ISqrtIn(n, 0, IF n < 46340 THEN n ELSE 46340)

\* the largest e in lo..hi with (Root*r0 + e)^2 <= Scale * (r0^2 + rem)
RECURSIVE SqrtFrac(_, _, _, _)
SqrtFrac(r0, rem, lo, hi) ==
    IF lo >= hi THEN lo
    ELSE LET mid == (lo + hi + 1) \div 2
         IN  IF 2 * Root * r0 * mid + mid * mid <= Scale * rem
             THEN SqrtFrac(r0, rem, mid, hi)
             ELSE SqrtFrac(r0, rem, lo, mid - 1)

\* square root of the fixed-point a >= 0, rounded down; exact on exact squares
FxSqrt(a) ==
    LET r0 == ISqrt(a)
    IN  Root * r0 + SqrtFrac(r0, a - r0 * r0, 0, Root - 1)

\* the fixed-point value of the integer n, and of n / d
Fx(n) == n * Scale
FxQ(n, d) == (n * Scale) \div d

-----------------------------------------------------------------------------
(* utils/unit_converters.py *)

BAR_TO_PSI == 145038
M3HR_TO_GPM == 440287
NM3HR_TO_SCFH == 37324

\* the powers of ten that turn the three integers above into the factors
BarToPsiDen == 10 ^ 4
M3hrToGpmDen == 10 ^ 5
Nm3hrToScfhDen == 10 ^ 3

convert_pressure_no_inverse(value, from_system, to_unit) ==
    IF from_system = "Metric" /\ to_unit = "psi" THEN MulDiv(value, BAR_TO_PSI, BarToPsiDen)
    ELSE IF from_system = "Imperial" /\ to_unit = "bar" THEN MulDiv(value, BAR_TO_PSI, BarToPsiDen)
    ELSE value
convert_pressure(value, from_system, to_unit) ==
    IF from_system = "Metric" /\ to_unit = "psi" THEN MulDiv(value, BAR_TO_PSI, BarToPsiDen)
    ELSE IF from_system = "Imperial" /\ to_unit = "bar" THEN MulDiv(value, BarToPsiDen, BAR_TO_PSI)
    ELSE value

convert_flow_liquid(value, from_system, to_unit) ==
    IF from_system = "Metric" /\ to_unit = "gpm" THEN MulDiv(value, M3HR_TO_GPM, M3hrToGpmDen)
    ELSE IF from_system = "Imperial" /\ to_unit = "m3/hr" THEN MulDiv(value, M3hrToGpmDen, M3HR_TO_GPM)
    ELSE value

convert_density(value, from_system, to_unit) ==
    IF from_system = "Metric" /\ to_unit = "SG" THEN value \div 1000
    ELSE IF from_system = "Imperial" /\ to_unit = "kg/m3" THEN value * 1000
    ELSE value

convert_temperature_to_F(value, from_system, to_unit) ==
    IF to_unit = "F" THEN MulDiv(value, 9, 5) + Fx(32)
    ELSE IF from_system = "Imperial" /\ to_unit = "C" THEN MulDiv(value - Fx(32), 5, 9)
    ELSE value
convert_temperature(value, from_system, to_unit) ==
    IF from_system = "Metric" /\ to_unit = "F" THEN MulDiv(value, 9, 5) + Fx(32)
    ELSE IF from_system = "Imperial" /\ to_unit = "C" THEN MulDiv(value - Fx(32), 5, 9)
    ELSE value

convert_flow_gas(value, from_system, to_unit) ==
    IF from_system = "Metric" /\ to_unit = "scfh" THEN MulDiv(value, NM3HR_TO_SCFH, Nm3hrToScfhDen)
    ELSE IF from_system = "Imperial" /\ to_unit = "Nm3/hr" THEN MulDiv(value, Nm3hrToScfhDen, NM3HR_TO_SCFH)
    ELSE value

-----------------------------------------------------------------------------
(* Python dicts as functions on their keys *)

EmptyDict == [key \in {} |-> 0]
Has(d, key) == key \in DOMAIN d
\* d[key] = v
Set(d, key, v) == (key :> v) @@ d
\* d.update(e)
Update(d, e) == e @@ d
\* del d[key]
Del(d, key) == [x \in DOMAIN d \ {key} |-> d[x]]

\* app.py lines 16..20: the session before the first step is rendered; the
\* harnesses below leave the wizard in this state
WizardIdle ==
    /\ session = [step |-> 1, input_data |-> EmptyDict, results |-> EmptyDict,
                  unit_system |-> "Metric"]
    /\ edited = FALSE
    /\ edits = 0
    /\ backs = 0

-----------------------------------------------------------------------------
(* Floats that may be nan or -inf *)

Num(v) == [k |-> "num", v |-> v]
NaN == [k |-> "nan", v |-> 0]
NegInf == [k |-> "ninf", v |-> 0]

-----------------------------------------------------------------------------
(* calculations/liquid_sizing.py *)

Raised(e) == [status |-> e]

\* line 35, the builtin min
sizing_dp_max(dp, dp_allowable) == IF dp_allowable > dp THEN dp_allowable ELSE dp
sizing_dp(dp, dp_allowable) == IF dp_allowable < dp THEN dp_allowable ELSE dp

\* line 41
liquid_cv_no_flow(flow_rate, Gf, dp_sizing) == FxSqrt(FxDiv(Gf, dp_sizing))
liquid_cv(flow_rate, Gf, dp_sizing) == FxMul(flow_rate, FxSqrt(FxDiv(Gf, dp_sizing)))

\* lines 48..56: the status, or the exception that 1 / kc raises
cavitation_status_le(is_flashing, cavitation_index, kc) ==
    IF is_flashing THEN "Flashing Occurs"
    ELSE IF kc = 0 THEN "ZeroDivisionError"
    ELSE IF cavitation_index <= FxDiv(Fx(1), kc) THEN "Cavitation Likely"
    ELSE "No Significant Cavitation"
cavitation_status(is_flashing, cavitation_index, kc) ==
    IF is_flashing THEN "Flashing Occurs"
    ELSE IF kc = 0 THEN "ZeroDivisionError"
    ELSE IF cavitation_index < FxDiv(Fx(1), kc) THEN "Cavitation Likely"
    ELSE "No Significant Cavitation"

trim_recommendation(status) ==
    IF status = "Flashing Occurs" THEN "hardened trim"
    ELSE IF status = "Cavitation Likely" THEN "anti-cavitation trim"
    ELSE "standard trim"

calculate_liquid_cv(data) ==
    LET p1 == convert_pressure(data.p1, data.unit_system, "psi")
        p2 == convert_pressure(data.p2, data.unit_system, "psi")
        pv == convert_pressure(data.pv, data.unit_system, "psi")
        pc == convert_pressure(data.pc, data.unit_system, "psi")
        flow_rate == convert_flow_liquid(data.flow_rate, data.unit_system, "gpm")
        Gf == IF data.unit_system = "Metric" THEN data.rho \div 1000 ELSE data.rho
        fl == data.fl
        kc == data.kc
        dp == p1 - p2
        ff == FxQ(96, 100) - FxMul(FxQ(28, 100), FxSqrt(FxDiv(pv, pc)))
        dp_allowable == FxMul(FxMul(fl, fl), p1 - FxMul(ff, pv))
        dp_sizing == sizing_dp(dp, dp_allowable)
        cv == liquid_cv(flow_rate, Gf, dp_sizing)
        is_flashing == p2 < pv
        sigma == FxDiv(p1 - pv, p1 - p2)
        cavitation_index == sigma
        status == cavitation_status(is_flashing, cavitation_index, kc)
    IN  IF pc = 0 THEN Raised("ZeroDivisionError")
        ELSE IF FxDiv(pv, pc) < 0 THEN Raised("TypeError")
        ELSE IF dp_sizing <= 0 THEN Raised("ValueError")
        ELSE IF status = "ZeroDivisionError" THEN Raised("ZeroDivisionError")
        ELSE [status |-> "ok", cv |-> Num(cv), is_flashing |-> is_flashing,
              cavitation_index |-> cavitation_index, cavitation_status |-> status,
              trim_recommendation |-> trim_recommendation(status),
              dp_sizing |-> dp_sizing]

-----------------------------------------------------------------------------
(* Harness for calculate_liquid_cv: one call on each input of a bounded set *)

MaxP == 3
MaxPv == 3
MaxFlow == 2

Systems == {"Metric", "Imperial"}
Pressures == {Fx(5 * k) : k \in 1..MaxP}
VapourPressures == {Fx(4 * k) : k \in 0..MaxPv}
Flows == {Fx(50 * k) : k \in 1..MaxFlow}
FLs == {FxQ(70, 100), FxQ(90, 100)}
KCs == {0, FxQ(50, 100), FxQ(70, 100)}

LiquidInputs ==
    {[unit_system |-> u, p1 |-> p1, p2 |-> p2, pv |-> pv, pc |-> Fx(221),
      flow_rate |-> q, rho |-> IF u = "Metric" THEN Fx(1000) ELSE Fx(1),
      fl |-> fl, kc |-> kc] :
        u \in Systems, p1 \in Pressures, p2 \in Pressures, pv \in VapourPressures,
        q \in Flows, fl \in FLs, kc \in KCs}

InitLiquid ==
    /\ call = "none"
    /\ WizardIdle
    /\ args \in LiquidInputs
    /\ ret = Raised("none")

CallLiquid ==
    /\ call = "none"
    /\ call' = "calculate_liquid_cv"
    /\ ret' = calculate_liquid_cv(args)
    /\ UNCHANGED <<args, wizVars>>

SpecLiquid == InitLiquid /\ [][CallLiquid]_vars

-----------------------------------------------------------------------------
(* Claims about calculate_liquid_cv, checked under SpecLiquid *)

Called == call = "calculate_liquid_cv"
Returned == Called /\ ret.status = "ok"
Failed == Called /\ ret.status # "ok"

\* the quantities of the claims, from the input as the specification states them
PsiOf(v) == convert_pressure(v, args.unit_system, "psi")
SpecFf == FxQ(96, 100) - FxMul(FxQ(28, 100), FxSqrt(FxDiv(PsiOf(args.pv), PsiOf(args.pc))))
SpecDpAllowable == FxMul(FxMul(args.fl, args.fl), PsiOf(args.p1) - FxMul(SpecFf, PsiOf(args.pv)))
SpecDp == PsiOf(args.p1) - PsiOf(args.p2)
SpecDpSizing == IF SpecDp <= SpecDpAllowable THEN SpecDp ELSE SpecDpAllowable
SpecFlashing == PsiOf(args.p2) < PsiOf(args.pv)
LiquidDomain == args.pv >= 0 /\ args.pc > 0

\* C1 as stated: for pv >= 0 and pc > 0 the call fails exactly when
\* min(p1 - p2, FL^2 (p1 - Ff pv)) <= 0, it fails whenever p2 >= p1, and a result
\* carries 0 < dp_sizing <= p1 - p2.
C1_FailsExactlyWhenDpSizingNotPositive ==
    (Called /\ LiquidDomain) =>
        /\ (ret.status # "ok") <=> (SpecDpSizing <= 0)
        /\ (args.p2 >= args.p1) => ret.status # "ok"
        /\ (ret.status = "ok") => (ret.dp_sizing > 0 /\ ret.dp_sizing <= SpecDp)

\* C1 amended: the call fails exactly when that minimum is <= 0 (a ValueError) or
\* when kc = 0 and the flow is not flashing (1 / kc raises ZeroDivisionError); it
\* fails whenever p2 >= p1, and a result carries 0 < dp_sizing <= p1 - p2.
C1_FailsOnDpSizingOrZeroKc ==
    (Called /\ LiquidDomain) =>
        /\ (ret.status = "ValueError") <=> (SpecDpSizing <= 0)
        /\ (ret.status # "ok") <=>
               (SpecDpSizing <= 0 \/ (args.kc = 0 /\ ~SpecFlashing))
        /\ (args.p2 >= args.p1) => ret.status # "ok"
        /\ (ret.status = "ok") => (ret.dp_sizing > 0 /\ ret.dp_sizing <= SpecDp)

\* C1 witness: the call failed on an input with p1 > p2, where only the allowable
\* pressure drop is non-positive.
C1_Witness ==
    Failed /\ ret.status = "ValueError" /\ args.p1 > args.p2 /\ SpecDpAllowable <= 0

\* the inputs C5 is about
C5_Pre ==
    /\ args.p1 > args.p2 /\ args.p2 > 0 /\ args.pv >= 0 /\ args.pc > 0
    /\ args.rho > 0 /\ args.flow_rate > 0 /\ SpecDpAllowable > 0

\* cv is positive and strictly larger for every larger flow_rate of the input set
C5_CvPositiveMonotone ==
    /\ ret.status = "ok" /\ ret.cv.k = "num" /\ ret.cv.v > 0
    /\ \A q \in Flows :
          q > args.flow_rate =>
              LET r == calculate_liquid_cv([args EXCEPT !.flow_rate = q])
              IN  r.status = "ok" /\ r.cv.k = "num" /\ r.cv.v > ret.cv.v

\* C5 as stated: for every input with p1 > p2 > 0, pv >= 0, pc > 0, density > 0,
\* flow_rate > 0 and dP_allowable > 0 the call returns cv > 0, strictly increasing
\* in flow_rate.
C5_PositiveIncreasingCv == (Called /\ C5_Pre) => C5_CvPositiveMonotone

\* C5 amended: the same for every such input that also has kc # 0 or p2 < pv
\* (otherwise the call raises ZeroDivisionError and returns nothing).
C5_PositiveIncreasingCvNonZeroKc ==
    (Called /\ C5_Pre /\ (args.kc # 0 \/ SpecFlashing)) => C5_CvPositiveMonotone

\* C5 witness: a result for an input of the claim that has a larger flow to compare
C5_Witness ==
    Returned /\ C5_Pre /\ ret.cv.v > 0 /\ \E q \in Flows : q > args.flow_rate

SpecSigma == FxDiv(PsiOf(args.p1) - PsiOf(args.pv), PsiOf(args.p1) - PsiOf(args.p2))

\* C6: in every result the status is "Flashing Occurs" iff p2 < pv, otherwise
\* "Cavitation Likely" iff sigma < 1 / kc, otherwise "No Significant Cavitation".
C6_StatusPriority ==
    Returned =>
        /\ ret.is_flashing = SpecFlashing
        /\ ret.cavitation_index = SpecSigma
        /\ (ret.cavitation_status = "Flashing Occurs") <=> SpecFlashing
        /\ (ret.cavitation_status = "Cavitation Likely") <=>
               (~SpecFlashing /\ SpecSigma < FxDiv(Fx(1), args.kc))
        /\ (ret.cavitation_status = "No Significant Cavitation") <=>
               (~SpecFlashing /\ ~(SpecSigma < FxDiv(Fx(1), args.kc)))
        /\ ret.cavitation_status \in
               {"Flashing Occurs", "Cavitation Likely", "No Significant Cavitation"}

\* C6 witness: a flashing result whose sigma is also below 1 / kc
C6_Witness ==
    Returned /\ ret.cavitation_status = "Flashing Occurs" /\ args.kc # 0
             /\ SpecSigma < FxDiv(Fx(1), args.kc)

-----------------------------------------------------------------------------
(* data/valve_data.py *)

\* VALVE_COEFFICIENTS: for each valve type its styles in the order of the dict
VALVE_COEFFICIENTS ==
    "Globe" :> <<
        [name |-> "Standard, Cage-Guided",
         FL |-> FxQ(90, 100), Kc |-> FxQ(70, 100), Xt |-> FxQ(75, 100), Rangeability |-> 50,
         Style |-> "General purpose, excellent throttling, moderate capacity."],
        [name |-> "Low-Noise, Multi-Path",
         FL |-> FxQ(95, 100), Kc |-> FxQ(80, 100), Xt |-> FxQ(80, 100), Rangeability |-> 40,
         Style |-> "Designed to attenuate aerodynamic noise in gas service."],
        [name |-> "Anti-Cavitation, Multi-Stage",
         FL |-> FxQ(98, 100), Kc |-> FxQ(85, 100), Xt |-> FxQ(85, 100), Rangeability |-> 30,
         Style |-> "Reduces pressure in multiple steps to prevent cavitation damage."],
        [name |-> "Port-Guided, Quick Opening",
         FL |-> FxQ(85, 100), Kc |-> FxQ(65, 100), Xt |-> FxQ(70, 100), Rangeability |-> 20,
         Style |-> "Best for on/off service, poor throttling."] >>
    @@ "Ball (Segmented)" :> <<
        [name |-> "Standard V-Notch",
         FL |-> FxQ(80, 100), Kc |-> FxQ(60, 100), Xt |-> FxQ(40, 100), Rangeability |-> 100,
         Style |-> "Good rangeability and throttling, suitable for slurries."],
        [name |-> "High-Performance",
         FL |-> FxQ(75, 100), Kc |-> FxQ(55, 100), Xt |-> FxQ(35, 100), Rangeability |-> 80,
         Style |-> "Higher capacity, but less pressure recovery."] >>
    @@ "Butterfly" :> <<
        [name |-> "Standard, Centric Disc",
         FL |-> FxQ(70, 100), Kc |-> FxQ(50, 100), Xt |-> FxQ(30, 100), Rangeability |-> 20,
         Style |-> "Low cost, high capacity, limited throttling range (typically 60-degree opening)."],
        [name |-> "High-Performance, Double Offset",
         FL |-> FxQ(85, 100), Kc |-> FxQ(65, 100), Xt |-> FxQ(55, 100), Rangeability |-> 50,
         Style |-> "Better shutoff and control than standard butterfly valves."] >>

DefaultValveData ==
    [FL |-> FxQ(9, 10), Kc |-> FxQ(7, 10), Xt |-> FxQ(75, 100), Rangeability |-> 30,
     Style |-> "Default general purpose values."]

\* the dict stored under a style: the entry without the key it is stored under
Coefficients(e) ==
    [FL |-> e.FL, Kc |-> e.Kc, Xt |-> e.Xt, Rangeability |-> e.Rangeability, Style |-> e.Style]

get_valve_styles(valve_type) ==
    IF valve_type \in DOMAIN VALVE_COEFFICIENTS
    THEN [i \in DOMAIN VALVE_COEFFICIENTS[valve_type] |-> VALVE_COEFFICIENTS[valve_type][i].name]
    ELSE <<"Default Style">>

get_valve_data_first_style(valve_type, valve_style) ==
    IF valve_type \in DOMAIN VALVE_COEFFICIENTS
    THEN IF \E i \in DOMAIN VALVE_COEFFICIENTS[valve_type] :
                VALVE_COEFFICIENTS[valve_type][i].name = valve_style
         THEN LET i == CHOOSE j \in DOMAIN VALVE_COEFFICIENTS[valve_type] :
                           VALVE_COEFFICIENTS[valve_type][j].name = valve_style
              IN  Coefficients(VALVE_COEFFICIENTS[valve_type][i])
         ELSE Coefficients(VALVE_COEFFICIENTS[valve_type][1])
    ELSE DefaultValveData
get_valve_data(valve_type, valve_style) ==
    IF /\ valve_type \in DOMAIN VALVE_COEFFICIENTS
       /\ \E i \in DOMAIN VALVE_COEFFICIENTS[valve_type] :
              VALVE_COEFFICIENTS[valve_type][i].name = valve_style
    THEN LET i == CHOOSE j \in DOMAIN VALVE_COEFFICIENTS[valve_type] :
                      VALVE_COEFFICIENTS[valve_type][j].name = valve_style
         IN  Coefficients(VALVE_COEFFICIENTS[valve_type][i])
    ELSE DefaultValveData

VALVE_RATED_CVS ==
    1 :> 12 @@ 2 :> 50 @@ 3 :> 110 @@ 4 :> 170 @@ 6 :> 400 @@ 8 :> 700 @@ 10 :> 1080
    @@ 12 :> 1750 @@ 14 :> 2400 @@ 16 :> 3200 @@ 18 :> 4100 @@ 20 :> 5000 @@ 24 :> 7200
    @@ 30 :> 11000 @@ 36 :> 16000 @@ 42 :> 22000 @@ 48 :> 28000 @@ 54 :> 36000
    @@ 60 :> 45000 @@ 66 :> 54000 @@ 72 :> 65000

get_rated_cv(valve_size) ==
    IF valve_size \in DOMAIN VALVE_RATED_CVS THEN VALVE_RATED_CVS[valve_size] ELSE 50

-----------------------------------------------------------------------------
(* calculations/gas_sizing.py *)

\* np.sqrt: nan (and a warning, no exception) for a negative argument
np_sqrt(a) == IF a < 0 THEN NaN ELSE Num(FxSqrt(a))

\* lines 10..13: the values the formula works with
gas_working_units(data) ==
    [p1_abs |-> convert_pressure(data.p1, data.unit_system, "psia"),
     p2_abs |-> convert_pressure(data.p2, data.unit_system, "psia"),
     t1_abs |-> convert_temperature(data.t1, data.unit_system, "R"),
     flow_rate_scfh |-> convert_flow_gas(data.flow_rate, data.unit_system, "scfh")]

\* lines 32..39
gas_choke_never(x, x_choked) == [x_sizing |-> x, is_choked |-> FALSE]
gas_choke_strict(x, x_choked) ==
    IF x > x_choked THEN [x_sizing |-> x_choked, is_choked |-> TRUE]
    ELSE [x_sizing |-> x, is_choked |-> FALSE]
gas_choke(x, x_choked) ==
    IF x >= x_choked THEN [x_sizing |-> x_choked, is_choked |-> TRUE]
    ELSE [x_sizing |-> x, is_choked |-> FALSE]

\* lines 15..58 on the working values w and the Xt of the valve
gas_formula(data, w, xt) ==
    LET p1_abs == w.p1_abs
        p2_abs == w.p2_abs
        t1_abs == w.t1_abs
        flow_rate_scfh == w.flow_rate_scfh
        mw == data.mw
        k == data.k
        z == data.z
        fk == FxDiv(k, FxQ(140, 100))
        x == FxDiv(p1_abs - p2_abs, p1_abs)
        x_choked == FxMul(xt, fk)
        choke == gas_choke(x, x_choked)
        x_sizing == choke.x_sizing
        is_choked == choke.is_choked
        y == Fx(1) - FxDiv(x_sizing, FxMul(FxMul(Fx(3), fk), xt))
        mtz == FxMul(FxMul(mw, t1_abs), z)
        root == np_sqrt(FxDiv(x_sizing, mtz))
        denominator ==
            IF root.k = "nan" THEN NaN
            ELSE Num(FxMul(FxMul(FxMul(Fx(1360), y), p1_abs), root.v))
        cv == IF denominator.k = "nan" THEN NaN
              ELSE Num(FxDiv(flow_rate_scfh, denominator.v))
    IN  IF p1_abs = 0 THEN Raised("ZeroDivisionError")
        ELSE IF FxMul(FxMul(Fx(3), fk), xt) = 0 THEN Raised("ZeroDivisionError")
        ELSE IF mtz = 0 THEN Raised("ZeroDivisionError")
        ELSE IF denominator.k = "num" /\ denominator.v = 0 THEN Raised("ValueError")
        ELSE [status |-> "ok", cv |-> cv, is_choked |-> is_choked,
              expansion_factor_y |-> y, pressure_drop_ratio_x |-> x,
              choked_pressure_drop_ratio |-> x_choked]

calculate_gas_cv_unchecked(data) ==
    LET r == gas_formula(data, gas_working_units(data),
                         get_valve_data(data.valve_type, data.valve_style).Xt)
    IN  IF r.status = "ValueError"
        THEN [status |-> "ok", cv |-> NaN, is_choked |-> FALSE,
              expansion_factor_y |-> Fx(1), pressure_drop_ratio_x |-> 0,
              choked_pressure_drop_ratio |-> 0]
        ELSE r
calculate_gas_cv(data) ==
    gas_formula(data, gas_working_units(data),
                get_valve_data(data.valve_type, data.valve_style).Xt)

-----------------------------------------------------------------------------
(* Harness for calculate_gas_cv *)

MaxInlet == 2
MaxT == 2

GasInlets == {Fx(10 * k) : k \in 1..MaxInlet}
Temperatures == {Fx(10 * k) : k \in -1..MaxT}
GasKs == {Fx(1), FxQ(14, 10)}
ValveTypes == <<"Globe", "Ball (Segmented)", "Butterfly">>
ValvePairs ==
    UNION {{<<ValveTypes[t], get_valve_styles(ValveTypes[t])[i]>> :
                i \in DOMAIN get_valve_styles(ValveTypes[t])} : t \in DOMAIN ValveTypes}

GasInputs ==
    {[unit_system |-> u, p1 |-> p1, p2 |-> p2, t1 |-> t1, flow_rate |-> q,
      mw |-> FxQ(2897, 100), z |-> Fx(1), k |-> k,
      valve_type |-> v[1], valve_style |-> v[2]] :
        u \in Systems, p1 \in GasInlets, p2 \in Pressures, t1 \in Temperatures,
        q \in Flows, k \in GasKs, v \in ValvePairs}

InitGas ==
    /\ call = "none"
    /\ WizardIdle
    /\ args \in GasInputs
    /\ ret = Raised("none")

CallGas ==
    /\ call = "none"
    /\ call' = "calculate_gas_cv"
    /\ ret' = calculate_gas_cv(args)
    /\ UNCHANGED <<args, wizVars>>

SpecGas == InitGas /\ [][CallGas]_vars

-----------------------------------------------------------------------------
(* Claims about calculate_gas_cv, checked under SpecGas *)

GasCalled == call = "calculate_gas_cv"
GasReturned == GasCalled /\ ret.status = "ok"

GasXt == get_valve_data(args.valve_type, args.valve_style).Xt
GasFk == FxDiv(args.k, FxQ(140, 100))
GasX == FxDiv(args.p1 - args.p2, args.p1)
GasXChoked == FxMul(GasXt, GasFk)
\* the expansion factor for a sizing ratio xs
GasY(xs) == Fx(1) - FxDiv(xs, FxMul(FxMul(Fx(3), GasFk), GasXt))

\* C2: whenever x >= Xt * (k / 1.40) the result is choked and sized with x_choked,
\* the boundary x = x_choked included; whenever x < x_choked it is not choked and
\* sized with x.  The ratio used shows in the expansion factor the result reports.
C2_ChokedDecision ==
    GasReturned =>
        /\ ret.pressure_drop_ratio_x = GasX
        /\ ret.choked_pressure_drop_ratio = GasXChoked
        /\ (GasX >= GasXChoked) =>
              /\ ret.is_choked = TRUE
              /\ gas_choke(GasX, GasXChoked).x_sizing = GasXChoked
              /\ ret.expansion_factor_y = GasY(GasXChoked)
        /\ (GasX < GasXChoked) =>
              /\ ret.is_choked = FALSE
              /\ gas_choke(GasX, GasXChoked).x_sizing = GasX
              /\ ret.expansion_factor_y = GasY(GasX)

\* C2 witness: a result at the boundary x = x_choked
C2_Witness == GasReturned /\ GasX = GasXChoked /\ ret.is_choked = TRUE

\* degrees C and degrees F as absolute degrees Rankine
RankineOfCelsius(t) == MulDiv(t + FxQ(27315, 100), 9, 5)
RankineOfFahrenheit(t) == t + FxQ(45967, 100)

\* C3: the formula works in Imperial units: for a Metric input the pressure is
\* p1 * 14.5038, the temperature the Rankine equivalent of t1 in degrees C and the
\* flow flow_rate * 37.324; for an Imperial input the temperature is t1 in degrees F
\* as Rankine.
C3_WorkingUnitsImperial ==
    GasCalled =>
        LET w == gas_working_units(args)
        IN  /\ (args.unit_system = "Metric") =>
                  /\ w.p1_abs = MulDiv(args.p1, BAR_TO_PSI, BarToPsiDen)
                  /\ w.t1_abs = RankineOfCelsius(args.t1)
                  /\ w.flow_rate_scfh = MulDiv(args.flow_rate, NM3HR_TO_SCFH, Nm3hrToScfhDen)
            /\ (args.unit_system = "Imperial") =>
                  w.t1_abs = RankineOfFahrenheit(args.t1)

\* the inputs the wizard accepts for a gas
C4_Accepted ==
    /\ args.p1 > args.p2 /\ args.p2 > 0 /\ args.flow_rate > 0
    /\ args.mw >= Fx(1) /\ args.z >= FxQ(2, 10) /\ args.z <= Fx(2)
    /\ args.k >= Fx(1) /\ args.k <= Fx(2)

\* C4: on every input the wizard accepts the call fails with an error or returns
\* a cv that is a number and > 0.
C4_CvDefinedOrError ==
    (GasCalled /\ C4_Accepted) =>
        (ret.status # "ok" \/ (ret.cv.k = "num" /\ ret.cv.v > 0))

\* MW * T1 * Z on the working values
GasMtz == FxMul(FxMul(args.mw, gas_working_units(args).t1_abs), args.z)

\* C16: calculate_gas_cv raises the calculation error whenever the denominator
\* 1360 * Y * p1 * sqrt(x_sizing / (MW * T1 * Z)) is zero, so a returned result has
\* Y, p1 and x_sizing all different from zero; in particular every input with
\* p1 = p2 and MW * T1 * Z > 0 raises the error and returns no result.
C16_ZeroDenominatorRaises ==
    GasCalled =>
        /\ ret.status = "ok" =>
              /\ ret.expansion_factor_y # 0
              /\ gas_working_units(args).p1_abs # 0
              /\ gas_choke(GasX, GasXChoked).x_sizing # 0
        /\ (args.p1 = args.p2 /\ GasMtz > 0) => ret.status = "ValueError"

\* C16 witness: equal pressures at a positive temperature, and the error
C16_Witness ==
    /\ GasCalled /\ args.p1 = args.p2 /\ GasMtz > 0
    /\ ret.status = "ValueError"

\* the inputs of the claim about the expansion factor
C20_Inputs == args.p1 > args.p2 /\ args.p2 > 0 /\ GasXt > 0 /\ args.k > 0

\* 2/3 as the arithmetic represents it
TwoThirds == FxQ(2, 3)

\* the rounding error of 1 - x_sizing / (3 * Fk * Xt): the products Xt * Fk and
\* 3 * Fk * Xt and the quotient are each rounded in the last place
YRounding == 3

-----------------------------------------------------------------------------
(* calculations/noise_prediction.py *)

\* floats that may be nan or -inf: sum, product with a positive number, order
FAdd(a, b) ==
    IF a.k = "nan" \/ b.k = "nan" THEN NaN
    ELSE IF a.k = "ninf" \/ b.k = "ninf" THEN NegInf
    ELSE Num(a.v + b.v)
FTimes(c, a) == IF a.k = "num" THEN Num(FxMul(c, a.v)) ELSE a
FLess(a, b) ==
    /\ a.k # "nan" /\ b.k # "nan"
    /\ \/ a.k = "ninf" /\ b.k = "num"
       \/ a.k = "num" /\ b.k = "num" /\ a.v < b.v

\* the fraction of log10(m) for 1 <= m < 10, one binary digit of weight w at a time
RECURSIVE Log10Frac(_, _)
Log10Frac(m, w) ==
    IF w = 0 THEN 0
    ELSE LET sq == FxMul(m, m)
         IN  IF sq >= Fx(10) THEN w + Log10Frac(sq \div 10, w \div 2)
             ELSE Log10Frac(sq, w \div 2)

\* log10 of the fixed-point v > 0
RECURSIVE Log10(_)
Log10(v) ==
    IF v >= Fx(10) THEN Fx(1) + Log10(v \div 10)
    ELSE IF v < Fx(1) THEN Log10(v * 10) - Fx(1)
    ELSE Log10Frac(v, Scale \div 2)

\* np.log10: -inf for 0 and nan for a negative argument (a warning, no exception)
np_log10(a) ==
    IF a.k # "num" THEN NaN
    ELSE IF a.v < 0 THEN NaN
    ELSE IF a.v = 0 THEN NegInf
    ELSE Num(Log10(a.v))

\* dict.get
Get(d, key, default) == IF Has(d, key) THEN d[key] ELSE default

\* lines 18..29: base_noise, or the exception dp / p1 raises
base_noise(inputs, results) ==
    LET dp == inputs.p1 - inputs.p2
        cv == results.cv
        liquid(offset) ==
            FAdd(Num(Fx(offset)), FTimes(Fx(10), np_log10(FTimes(dp, cv))))
        mach_velocity_simplified == FxQ(1, 10) + FxMul(FxDiv(dp, inputs.p1), FxQ(8, 10))
    IN  IF inputs.fluid_type = "Liquid"
        THEN IF Get(results, "cavitation_status", "None") = "Cavitation Likely" THEN liquid(80)
             ELSE IF Get(results, "is_flashing", FALSE) THEN liquid(85)
             ELSE liquid(60)
        ELSE FAdd(FAdd(Num(Fx(70)),
                       FTimes(Fx(20), np_log10(Num(FxMul(mach_velocity_simplified, Fx(1000)))))),
                  FTimes(Fx(10), np_log10(cv)))

\* lines 32..39
transmission_loss(valve_type) ==
    IF valve_type = "Globe" THEN Fx(-5)
    ELSE IF valve_type = "Ball (Segmented)" THEN Fx(-10)
    ELSE IF valve_type = "Butterfly" THEN Fx(-15)
    ELSE Fx(0)

pipe_correction == Fx(-5)

\* line 45
raw_total_noise(inputs, results) ==
    FAdd(FAdd(base_noise(inputs, results), Num(transmission_loss(inputs.valve_type))),
         Num(pipe_correction))

\* the builtins min and max on two arguments: the first unless the second is
\* smaller (larger); every comparison with nan is false
py_min(a, b) == IF FLess(b, a) THEN b ELSE a
py_max(a, b) == IF FLess(a, b) THEN b ELSE a

\* lines 49..54
noise_recommendation(total_noise_dba) ==
    IF FLess(Num(Fx(110)), total_noise_dba) THEN "Extreme noise level"
    ELSE IF FLess(Num(Fx(85)), total_noise_dba) THEN "High noise level"
    ELSE "Standard trim is acceptable"

predict_noise(inputs, results) ==
    IF ~Has(results, "cv") THEN Raised("KeyError")
    ELSE IF inputs.fluid_type # "Liquid" /\ inputs.p1 = 0 THEN Raised("ZeroDivisionError")
    ELSE LET total_noise_dba ==
                 py_max(Num(Fx(50)), py_min(Num(Fx(120)), raw_total_noise(inputs, results)))
         IN  [status |-> "ok", total_noise_dba |-> total_noise_dba,
              noise_recommendation |-> noise_recommendation(total_noise_dba)]

-----------------------------------------------------------------------------
(* Harness for predict_noise: args is <<inputs, results>> *)

MaxNoiseCv == 1

FluidTypes == {"Liquid", "Gas/Vapor"}
NoiseCvs ==
    {NaN, Num(Fx(-1)), Num(0), Num(FxQ(1, 10)), Num(Fx(10))}
        \cup {Num(Fx(4000 * k)) : k \in 1..MaxNoiseCv}
NoiseValveTypes == {ValveTypes[t] : t \in DOMAIN ValveTypes} \cup {"Gate"}
\* what a sizing result says about cavitation: liquid results, and a gas result
\* (which has neither key)
NoiseSizings ==
    {[cavitation_status |-> "Flashing Occurs", is_flashing |-> TRUE],
     [cavitation_status |-> "Cavitation Likely", is_flashing |-> FALSE],
     [cavitation_status |-> "No Significant Cavitation", is_flashing |-> FALSE]}

NoiseInputs ==
    {<<[fluid_type |-> f, p1 |-> p1, p2 |-> p2, valve_type |-> v],
       IF f = "Liquid" THEN [cv |-> cv, cavitation_status |-> r.cavitation_status,
                             is_flashing |-> r.is_flashing]
       ELSE [cv |-> cv]>> :
        f \in FluidTypes, p1 \in Pressures, p2 \in Pressures, v \in NoiseValveTypes,
        cv \in NoiseCvs, r \in NoiseSizings}

InitNoise ==
    /\ call = "none"
    /\ WizardIdle
    /\ args \in NoiseInputs
    /\ ret = Raised("none")

CallNoise ==
    /\ call = "none"
    /\ call' = "predict_noise"
    /\ ret' = predict_noise(args[1], args[2])
    /\ UNCHANGED <<args, wizVars>>

SpecNoise == InitNoise /\ [][CallNoise]_vars

-----------------------------------------------------------------------------
(* Claims about predict_noise, checked under SpecNoise *)

NoiseCalled == call = "predict_noise"
NoiseReturned == NoiseCalled /\ ret.status = "ok"

\* x <= 0 for a float that is a number
NonPositive(a) == a.k = "num" /\ a.v <= 0

NoiseDp == args[1].p1 - args[1].p2
\* the argument of a logarithm the call evaluates is non-positive
NoiseLogDomainError ==
    IF args[1].fluid_type = "Liquid"
    THEN args[2].cv.k = "num" /\ Sgn(NoiseDp) * Sgn(args[2].cv.v) <= 0
    ELSE NonPositive(args[2].cv) \/
         (FxQ(1, 10) + FxMul(FxDiv(NoiseDp, args[1].p1), FxQ(8, 10)) <= 0)

\* C7: whenever the argument of a logarithm is non-positive the call fails and
\* returns no NoiseResult.
C7_LogDomainErrorFails == (NoiseCalled /\ NoiseLogDomainError) => ret.status # "ok"

NoiseRaw == raw_total_noise(args[1], args[2])
NoiseBelow(a) == a.k = "ninf" \/ (a.k = "num" /\ a.v < Fx(50))
NoiseAbove(a) == a.k = "num" /\ a.v > Fx(120)
NoiseTier(t) ==
    IF t > Fx(110) THEN "Extreme noise level"
    ELSE IF t > Fx(85) THEN "High noise level"
    ELSE "Standard trim is acceptable"

\* C8: every result has 50 <= total_noise_dba <= 120: exactly 50 when the raw total
\* is below 50, exactly 120 when it is above 120, the raw total otherwise; the
\* recommendation tier is chosen from the clamped value.
C8_NoiseClamped ==
    NoiseReturned =>
        /\ ret.total_noise_dba.k = "num"
        /\ ret.total_noise_dba.v >= Fx(50) /\ ret.total_noise_dba.v <= Fx(120)
        /\ NoiseBelow(NoiseRaw) => ret.total_noise_dba = Num(Fx(50))
        /\ NoiseAbove(NoiseRaw) => ret.total_noise_dba = Num(Fx(120))
        /\ (~NoiseBelow(NoiseRaw) /\ ~NoiseAbove(NoiseRaw)) => ret.total_noise_dba = NoiseRaw
        /\ ret.noise_recommendation = NoiseTier(ret.total_noise_dba.v)

-----------------------------------------------------------------------------
(* app.py, step 3: the rangeability analysis *)

\* f"{v:.1f}": the float rounded to one decimal
FormatF1(a) ==
    IF a.k # "num" THEN a
    ELSE Num(Sgn(a.v) * (((Abs(a.v) + (Scale \div 20)) \div (Scale \div 10)) * (Scale \div 10)))

\* cv / rated_cv * 100
opening_percent(cv, rated_cv) ==
    IF cv.k # "num" THEN cv
    ELSE Num(FxMul(FxDiv(cv.v, Fx(rated_cv)), Fx(100)))

\* lines 188..197
rangeability_status_le(calculated_cv, min_cv, rated_cv) ==
    IF FLess(calculated_cv, Num(min_cv)) \/ calculated_cv = Num(min_cv)
    THEN [label |-> "Valve Oversized"]
    ELSE IF FLess(Num(Fx(rated_cv)), calculated_cv) THEN [label |-> "Valve Undersized"]
    ELSE [label |-> "Acceptable", open |-> FormatF1(opening_percent(calculated_cv, rated_cv))]
rangeability_status(calculated_cv, min_cv, rated_cv) ==
    IF FLess(calculated_cv, Num(min_cv)) THEN [label |-> "Valve Oversized"]
    ELSE IF FLess(Num(Fx(rated_cv)), calculated_cv) THEN [label |-> "Valve Undersized"]
    ELSE [label |-> "Acceptable", open |-> FormatF1(opening_percent(calculated_cv, rated_cv))]

\* lines 170..199: st.session_state.results after the block; an exception inside
\* it is caught and leaves what was stored before it was raised
rangeability_analysis(input_data, results) ==
    LET valve_size == input_data.valve_size_nominal
        valve_specifics == get_valve_data(input_data.valve_type, input_data.valve_style)
        inherent_rangeability == valve_specifics.Rangeability
        rated_cv == get_rated_cv(valve_size)
        min_cv == FxDiv(Fx(rated_cv), Fx(inherent_rangeability))
        stored ==
            [inherent_rangeability |-> inherent_rangeability, rated_cv |-> rated_cv,
             min_controllable_cv |-> min_cv] @@ results
    IN  IF inherent_rangeability = 0 THEN results
        ELSE IF ~Has(results, "cv") THEN stored
        ELSE Set(stored, "rangeability_status",
                 rangeability_status(results.cv, min_cv, rated_cv))

-----------------------------------------------------------------------------
(* Harness for the rangeability analysis: args is <<input_data, results>> *)

RangeSizes == DOMAIN VALVE_RATED_CVS \cup {5}
RangePairs == ValvePairs \cup {<<"Gate", "Default Style">>}
\* the thresholds of a selection and the values next to them
RangeCvs(size, pair) ==
    LET rated == Fx(get_rated_cv(size))
        min_cv == FxDiv(rated, Fx(get_valve_data(pair[1], pair[2]).Rangeability))
    IN  {NaN} \cup {Num(v + d) : v \in {min_cv, rated}, d \in {-1, 0, 1}}

RangeInputs ==
    UNION {{<<[valve_size_nominal |-> n, valve_type |-> v[1], valve_style |-> v[2]],
              [cv |-> cv]>> : cv \in RangeCvs(n, v)} : n \in RangeSizes, v \in RangePairs}

InitRange ==
    /\ call = "none"
    /\ WizardIdle
    /\ args \in RangeInputs
    /\ ret = Raised("none")

CallRange ==
    /\ call = "none"
    /\ call' = "rangeability_analysis"
    /\ ret' = rangeability_analysis(args[1], args[2])
    /\ UNCHANGED <<args, wizVars>>

SpecRange == InitRange /\ [][CallRange]_vars

-----------------------------------------------------------------------------
(* Claim about the rangeability analysis, checked under SpecRange *)

RangeCalled == call = "rangeability_analysis"
RangeRated == get_rated_cv(args[1].valve_size_nominal)
RangeR == get_valve_data(args[1].valve_type, args[1].valve_style).Rangeability
RangeMin == FxDiv(Fx(RangeRated), Fx(RangeR))
RangeCv == args[2].cv
RangeOversized == RangeCv.k = "num" /\ RangeCv.v < RangeMin
RangeUndersized == RangeCv.k = "num" /\ RangeCv.v > Fx(RangeRated)
RangePercent ==
    IF RangeCv.k = "num" THEN Num(FxMul(FxDiv(RangeCv.v, Fx(RangeRated)), Fx(100))) ELSE RangeCv

\* C9: with min_controllable_cv = rated_cv / inherent_rangeability, cv below it is
\* "Valve Oversized", cv above rated_cv is "Valve Undersized", every other cv is
\* Acceptable with the opening percent cv / rated_cv * 100 (to one decimal);
\* cv = rated_cv is Acceptable at 100.0 %, cv = min_controllable_cv is Acceptable,
\* and the two warnings never apply together.
C9_RangeabilityClassification ==
    RangeCalled =>
        /\ ret.rated_cv = RangeRated
        /\ ret.inherent_rangeability = RangeR
        /\ ret.min_controllable_cv = RangeMin
        /\ RangeOversized => ret.rangeability_status = [label |-> "Valve Oversized"]
        /\ RangeUndersized => ret.rangeability_status = [label |-> "Valve Undersized"]
        /\ (~RangeOversized /\ ~RangeUndersized) =>
              ret.rangeability_status = [label |-> "Acceptable", open |-> FormatF1(RangePercent)]
        /\ (RangeCv = Num(Fx(RangeRated))) =>
              ret.rangeability_status = [label |-> "Acceptable", open |-> Num(Fx(100))]
        /\ (RangeCv = Num(RangeMin)) => ret.rangeability_status.label = "Acceptable"
        /\ ~(RangeOversized /\ RangeUndersized)

\* C9 witness: a required cv exactly at the minimum controllable cv of a table entry
C9_Witness ==
    /\ RangeCalled /\ RangeCv = Num(RangeMin) /\ RangeMin < Fx(RangeRated)
    /\ <<args[1].valve_type, args[1].valve_style>> \in ValvePairs
    /\ ret.rangeability_status.label = "Acceptable"

-----------------------------------------------------------------------------
(* utils/helpers.py *)

UNITS ==
    "Metric" :>
        [pressure |-> "bar", temperature |-> "C", flow_liquid |-> "m3/hr",
         flow_gas |-> "Nm3/hr", density |-> "kg/m3", viscosity |-> "cP",
         force |-> "N", torque |-> "Nm"]
    @@ "Imperial" :>
        [pressure |-> "psi", temperature |-> "F", flow_liquid |-> "gpm",
         flow_gas |-> "scfh", density |-> "SG", viscosity |-> "cP",
         force |-> "lbf", torque |-> "ft-lbf"]

get_units(unit_system) ==
    IF unit_system \in DOMAIN UNITS THEN UNITS[unit_system] ELSE UNITS["Metric"]

-----------------------------------------------------------------------------
(* calculations/actuator_sizing.py *)

\* line 14: the literal 3.14159
SEAT_AREA_PI == 314159
SeatAreaPiDen == 10 ^ 5
\* line 26: the safety factor 1.3, and line 46: the safety factor 1.5
FORCE_SAFETY_FACTOR == 13
TORQUE_SAFETY_FACTOR == 15
SafetyFactorDen == 10
\* line 30: lbf to N, 4.44822, and line 50: ft-lbf to Nm, 1.35582
LBF_TO_N == 444822
FTLBF_TO_NM == 135582
ForceTorqueDen == 10 ^ 5

\* f"{v:.2f}": the number rounded to two decimals
FormatF2(v) ==
    Sgn(v) * (((Abs(v) + (Scale \div 200)) \div (Scale \div 100)) * (Scale \div 100))

\* lines 38..41: 0.5 * valve_size for Butterfly, 0.7 * valve_size for anything else
torque_factor_ball(valve_type, valve_size) == MulDiv(Fx(valve_size), 7, 10)
torque_factor(valve_type, valve_size) ==
    IF valve_type = "Butterfly" THEN MulDiv(Fx(valve_size), 5, 10)
    ELSE MulDiv(Fx(valve_size), 7, 10)

\* lines 3..58; seat_area is kept as the fraction seat_area_num / seat_area_den
size_actuator(inputs, results) ==
    LET valve_type == inputs.valve_type
        valve_size == inputs.valve_size_nominal
        p1 == convert_pressure(inputs.p1, inputs.unit_system, "psi")
        dp == convert_pressure(inputs.dp, inputs.unit_system, "psi")
        seat_area_num == SEAT_AREA_PI * valve_size * valve_size
        seat_area_den == 4 * SeatAreaPiDen
    IN  IF valve_type = "Globe"
        THEN LET unbalanced_force == MulDiv(dp, seat_area_num, seat_area_den)
                 force_lbf == MulDiv(unbalanced_force, FORCE_SAFETY_FACTOR, SafetyFactorDen)
                 required_force == IF inputs.unit_system = "Metric"
                                   THEN MulDiv(force_lbf, LBF_TO_N, ForceTorqueDen)
                                   ELSE force_lbf
             IN  [required_force |-> required_force,
                  required_torque |-> 0,
                  actuator_recommendation |->
                      [kind |-> "thrust", value |-> FormatF2(required_force),
                       unit |-> inputs.units.force]]
        ELSE LET seating_torque == FxMul(torque_factor(valve_type, valve_size), dp)
                 torque_ftlbf == MulDiv(seating_torque, TORQUE_SAFETY_FACTOR, SafetyFactorDen)
                 required_torque == IF inputs.unit_system = "Metric"
                                    THEN MulDiv(torque_ftlbf, FTLBF_TO_NM, ForceTorqueDen)
                                    ELSE torque_ftlbf
             IN  [required_force |-> 0,
                  required_torque |-> required_torque,
                  actuator_recommendation |->
                      [kind |-> "torque", value |-> FormatF2(required_torque),
                       unit |-> inputs.units.torque]]

-----------------------------------------------------------------------------
(* Harness for size_actuator: args is <<inputs, results>> *)

MaxDp == 4

ActuatorTypes == {ValveTypes[i] : i \in DOMAIN ValveTypes}
ActuatorSizes == {1, 3, 8, 24}
ActuatorDps == {k * 5003 : k \in 0..MaxDp}
FailPositions == {"Fail Close (FC)", "Fail Open (FO)"}

ActuatorInputs ==
    {[valve_type |-> t, valve_size_nominal |-> n, p1 |-> Fx(10), dp |-> dp,
      unit_system |-> u, units |-> get_units(u), fail_position |-> f] :
        t \in ActuatorTypes, n \in ActuatorSizes, dp \in ActuatorDps,
        u \in DOMAIN UNITS, f \in FailPositions}

InitActuator ==
    /\ call = "none"
    /\ WizardIdle
    /\ args \in ActuatorInputs \X {EmptyDict}
    /\ ret = Raised("none")

CallActuator ==
    /\ call = "none"
    /\ call' = "size_actuator"
    /\ ret' = [status |-> "ok", value |-> size_actuator(args[1], args[2])]
    /\ UNCHANGED <<args, wizVars>>

SpecActuator == InitActuator /\ [][CallActuator]_vars

-----------------------------------------------------------------------------
(* Claims about size_actuator, checked under SpecActuator *)

ActuatorCalled == call = "size_actuator"

\* half of the last digit that f"{v:.2f}" prints
PrintTolerance == Scale \div 200

DpPsi(inputs) == convert_pressure(inputs.dp, inputs.unit_system, "psi")

\* 1.3 * pi * (size / 2)^2 * dp_psi, times 4.44822 when Metric, with pi = num / den
ExpectedForce(inputs, num, den) ==
    LET n == inputs.valve_size_nominal
        lbf == MulDiv(MulDiv(MulDiv(DpPsi(inputs), n * n, 4), num, den), 13, 10)
    IN  IF inputs.unit_system = "Metric" THEN MulDiv(lbf, 444822, 10 ^ 5) ELSE lbf

\* 1.5 * factor * size * dp_psi, times 1.35582 when Metric, with factor in tenths
ExpectedTorque(inputs, tenths) ==
    LET ftlbf == MulDiv(DpPsi(inputs), 15 * tenths * inputs.valve_size_nominal, 100)
    IN  IF inputs.unit_system = "Metric" THEN MulDiv(ftlbf, 135582, 10 ^ 5) ELSE ftlbf

OtherFailPosition(inputs) ==
    [inputs EXCEPT !.fail_position = CHOOSE f \in FailPositions : f # @]

ActuatorContract(num, den) ==
    ActuatorCalled =>
        LET inputs == args[1]
            r == ret.value
            o == size_actuator(OtherFailPosition(inputs), args[2])
        IN  /\ inputs.valve_type = "Globe" =>
                /\ Abs(r.required_force - ExpectedForce(inputs, num, den)) <= PrintTolerance
                /\ r.required_torque = 0
            /\ inputs.valve_type = "Butterfly" =>
                /\ Abs(r.required_torque - ExpectedTorque(inputs, 5)) <= PrintTolerance
                /\ r.required_force = 0
            /\ inputs.valve_type = "Ball (Segmented)" =>
                /\ Abs(r.required_torque - ExpectedTorque(inputs, 7)) <= PrintTolerance
                /\ r.required_force = 0
            /\ o.required_force = r.required_force
            /\ o.required_torque = r.required_torque

-----------------------------------------------------------------------------
(* data/materials.py *)

\* lines 1..46
select_materials(data) ==
    LET fluid_nature == data.fluid_nature
        temp == data.t1
        pressure == data.p1
        body_nature == IF fluid_nature = "Corrosive" THEN "Stainless Steel (ASTM A351 CF8M)"
                       ELSE "Carbon Steel (ASTM A216 WCB)"
        trim_material ==
            IF fluid_nature = "Flashing/Cavitating" THEN "Stellite Hard Facing on 316 SS Base"
            ELSE IF fluid_nature = "Abrasive" THEN "Stellite Hard Facing or Ceramic"
            ELSE IF fluid_nature = "Corrosive" THEN "Alloy 20 or Hastelloy C"
            ELSE "Stainless Steel (316 SS)"
        body_material == IF temp > Fx(427) THEN "Chrome-Moly (ASTM A217 C5/C12)"
                         ELSE IF temp < Fx(-29) THEN "Stainless Steel (ASTM A351 CF8M)"
                         ELSE body_nature
    IN  [recommendations |->
             [body |-> body_material, trim |-> trim_material,
              bolting |-> "ASTM A193 B7 / A194 2H", gasket |-> "Spiral Wound 316SS/Graphite"],
         compliance_check |->
             IF fluid_nature = "Corrosive" THEN "standard service, sour service to be verified"
             ELSE "standard service"]

-----------------------------------------------------------------------------
(* app.py: the wizard.  Every click or edit reruns the script, which renders *)
(* the body of the current step; an action is the event followed by the run. *)

\* lines 53..58
step1_defaults(unit_system) ==
    [fluid_type |-> "Liquid", fluid_name |-> "Water", fluid_nature |-> "Clean",
     p1 |-> Fx(10), p2 |-> Fx(5), t1 |-> Fx(25), flow_rate |-> Fx(100),
     rho |-> IF unit_system = "Metric" THEN Fx(1000) ELSE Fx(1),
     pv |-> FxQ(3, 100), pc |-> Fx(221), vc |-> Fx(1), mw |-> FxQ(2897, 100),
     z |-> Fx(1), k |-> FxQ(14, 10)]

\* lines 102..106
step2_defaults ==
    LET initial_valve_type == "Globe"
        initial_valve_style == get_valve_styles(initial_valve_type)[1]
        initial_valve_data == get_valve_data(initial_valve_type, initial_valve_style)
    IN  [valve_type |-> initial_valve_type, valve_style |-> initial_valve_style,
         valve_char |-> "Equal Percentage", valve_size_nominal |-> 2,
         fl |-> initial_valve_data.FL, kc |-> initial_valve_data.Kc]

valve_types == <<"Globe", "Ball (Segmented)", "Butterfly">>
valve_chars == <<"Equal Percentage", "Linear", "Quick Opening">>
globe_sizes == <<1, 2, 3, 4, 6, 8, 10, 12, 14, 16, 18, 20, 24>>
large_sizes == globe_sizes \o <<30, 36, 42, 48, 54, 60, 66, 72>>
available_sizes(valve_type) == IF valve_type = "Globe" THEN globe_sizes ELSE large_sizes
Elements(seq) == {seq[i] : i \in DOMAIN seq}

\* lines 52..59: the body of step 1 up to the widgets
step_1(ss) ==
    IF Has(ss, "step1_data") THEN ss
    ELSE Set(ss, "step1_data", step1_defaults(ss.unit_system))

\* lines 107..142 when no selection differs from s2_data; valve_char is what
\* the characteristic selectbox holds
selected(ss, s2_data, valve_char) ==
    LET sizes == available_sizes(s2_data.valve_type)
        size == IF s2_data.valve_size_nominal \in Elements(sizes)
                THEN s2_data.valve_size_nominal ELSE sizes[1]
    IN  Set(ss, "step2_data",
            [s2_data EXCEPT !.valve_char = valve_char, !.valve_size_nominal = size])

\* lines 101..142: the body of step 2
step_2(ss, valve_char) ==
    selected(ss, IF Has(ss, "step2_data") THEN ss.step2_data ELSE step2_defaults, valve_char)

\* lines 169..199 on the results stored so far
ranged(ss, stored) ==
    [ss EXCEPT !.results = rangeability_analysis(ss.input_data, stored)]

\* lines 158..202 on what the calculator returned or raised: an exception skips
\* everything up to the buttons
sized(ss, results) ==
    IF results.status # "ok" THEN ss
    ELSE ranged(ss, Update(ss.results, Del(results, "status")))

\* lines 153..202: the body of step 3
step_3(ss) ==
    sized(ss, IF ss.input_data.fluid_type = "Liquid" THEN calculate_liquid_cv(ss.input_data)
              ELSE calculate_gas_cv(ss.input_data))

\* lines 212..220 on what predict_noise returned or raised
predicted(ss, noise_results) ==
    IF noise_results.status # "ok" THEN ss
    ELSE [ss EXCEPT !.results = Update(ss.results, Del(noise_results, "status"))]

\* lines 210..220: the body of step 4
step_4(ss) == predicted(ss, predict_noise(ss.input_data, ss.results))

\* one run of the script; valve_char matters in step 2 only
Script(ss, valve_char) ==
    IF ss.step = 1 THEN step_1(ss)
    ELSE IF ss.step = 2 THEN step_2(ss, valve_char)
    ELSE IF ss.step = 3 THEN step_3(ss)
    ELSE IF ss.step = 4 THEN step_4(ss)
    ELSE ss

\* a rerun on the page the user is on: the widgets keep what they hold
Rerun(ss) ==
    Script(ss, IF ss.step = 2 /\ Has(ss, "step2_data") THEN ss.step2_data.valve_char
               ELSE valve_chars[1])
\* the first run on another page: its widgets are new and hold their defaults
Enter(ss) == Script(ss, valve_chars[1])

\* line 229
fail_positions == <<"Fail Close (FC)", "Fail Open (FO)">>
\* lines 248..253: the image of the plot, or None when fig.to_image raised
PlotImages == {"png", "None"}
\* the outcomes of the plot export in a run of the page ss shows: only step 5 plots
PlotImagesOf(ss) == IF ss.step = 5 /\ Has(ss.results, "cv") THEN PlotImages ELSE {"None"}

\* lines 231..232
actuator_sized(ss) ==
    [ss EXCEPT !.results = Update(@, size_actuator(ss.input_data, ss.results))]
\* lines 239..240
materials_selected(ss) ==
    [ss EXCEPT !.results = Update(@, select_materials(ss.input_data))]
\* lines 246..253: results['cv'] raises KeyError when the key is missing, and the
\* run ends there
plotted(ss, img) ==
    IF ~Has(ss.results, "cv") THEN ss
    ELSE [ss EXCEPT !.results = Set(@, "plot_image_bytes", img)]

\* lines 228..253: the body of step 5 for what the radio holds and what the plot
\* export gives
step_5(ss, fail_position, img) ==
    plotted(materials_selected(actuator_sized(
                [ss EXCEPT !.input_data = Set(@, "fail_position", fail_position)])), img)

\* lines 254..256: the buttons of step 5 are rendered when the run got that far
step_5_buttons(ss) == Has(ss.results, "cv")

\* steps 5 and 6 of a run; step 6 (lines 261..286) reads the session and stores
\* nothing
Late(ss, fail_position, img) ==
    IF ss.step = 5 THEN step_5(ss, fail_position, img) ELSE ss

-----------------------------------------------------------------------------
(* The wizard as a state machine *)

MaxEdit == 2
MaxBack == 1

\* what the user may put into the widgets of step 1, within their limits; the
\* widgets not listed keep their defaults
Step1Choices ==
    [fluid_type |-> {"Liquid", "Gas/Vapor"}, p2 |-> {Fx(5), Fx(10)},
     flow_rate |-> {Fx(100), Fx(200)}]
SizeChoices == {2, 4, 30}
FLChoices == {FxQ(5, 10)}
KcChoices == {0}

Init ==
    /\ call = "none"
    /\ args = EmptyDict
    /\ ret = Raised("none")
    /\ session = step_1([step |-> 1, input_data |-> EmptyDict, results |-> EmptyDict,
                         unit_system |-> "Metric"])
    /\ edited = FALSE
    /\ edits = 0
    /\ backs = 0

\* line 33: the sidebar radio, shown on every page
ToggleUnitSystem ==
    /\ \E u \in DOMAIN UNITS \ {session.unit_system} :
       \E img \in PlotImagesOf(session) :
           session' = Late(Rerun([session EXCEPT !.unit_system = u]),
                           Get(session.input_data, "fail_position", fail_positions[1]), img)
    /\ UNCHANGED <<fnVars, edited, edits, backs>>

\* lines 61..85: one widget of step 1 gets another value
EditStep1 ==
    /\ session.step = 1
    /\ edits < MaxEdit
    /\ \E field \in DOMAIN Step1Choices :
       \E v \in Step1Choices[field] \ {session.step1_data[field]} :
           session' = Rerun([session EXCEPT !.step1_data[field] = v])
    /\ edits' = edits + 1
    /\ UNCHANGED <<fnVars, edited, backs>>

\* lines 86..96
SaveStep1_unguarded ==
    /\ session.step = 1
    /\ LET s1_data == session.step1_data
           dp == s1_data.p1 - s1_data.p2
           units == get_units(session.unit_system)
       IN  /\ session' =
                  Enter(Del([session EXCEPT
                                !.input_data =
                                    Update(s1_data,
                                           [dp |-> dp, units |-> units,
                                            unit_system |-> session.unit_system]),
                                !.step = @ + 1],
                            "step1_data"))
           /\ edited' = (Has(session, "step2_data") /\ edited)
    /\ UNCHANGED <<fnVars, edits, backs>>
SaveStep1 ==
    /\ session.step = 1
    /\ LET s1_data == session.step1_data
           dp == s1_data.p1 - s1_data.p2
           units == get_units(session.unit_system)
       IN  IF s1_data.p1 <= s1_data.p2
           THEN UNCHANGED <<session, edited>>
           ELSE /\ session' =
                       Enter(Del([session EXCEPT
                                     !.input_data =
                                         Update(s1_data,
                                                [dp |-> dp, units |-> units,
                                                 unit_system |-> session.unit_system]),
                                     !.step = @ + 1],
                                 "step1_data"))
                /\ edited' = (Has(session, "step2_data") /\ edited)
    /\ UNCHANGED <<fnVars, edits, backs>>

\* lines 111..116
SelectValveType_keep_style ==
    /\ session.step = 2
    /\ edits < MaxEdit
    /\ \E new_valve_type \in Elements(valve_types) \ {session.step2_data.valve_type} :
           session' = Rerun([session EXCEPT !.step2_data.valve_type = new_valve_type])
    /\ edits' = edits + 1
    /\ UNCHANGED <<fnVars, edited, backs>>
SelectValveType ==
    /\ session.step = 2
    /\ edits < MaxEdit
    /\ \E new_valve_type \in Elements(valve_types) \ {session.step2_data.valve_type} :
           session' = Rerun([session EXCEPT
                                !.step2_data.valve_type = new_valve_type,
                                !.step2_data.valve_style = get_valve_styles(new_valve_type)[1]])
    /\ edits' = edits + 1
    /\ UNCHANGED <<fnVars, edited, backs>>

\* lines 117..123
SelectValveStyle ==
    /\ session.step = 2
    /\ edits < MaxEdit
    /\ \E new_valve_style \in Elements(get_valve_styles(session.step2_data.valve_type))
                                \ {session.step2_data.valve_style} :
           LET valve_specific_data ==
                   get_valve_data(session.step2_data.valve_type, new_valve_style)
           IN  session' = Rerun([session EXCEPT
                                    !.step2_data.valve_style = new_valve_style,
                                    !.step2_data.fl = valve_specific_data.FL,
                                    !.step2_data.kc = valve_specific_data.Kc])
    /\ edits' = edits + 1
    /\ UNCHANGED <<fnVars, edited, backs>>

\* line 126
SelectValveChar ==
    /\ session.step = 2
    /\ edits < MaxEdit
    /\ \E c \in Elements(valve_chars) \ {session.step2_data.valve_char} :
           session' = Script(session, c)
    /\ edits' = edits + 1
    /\ UNCHANGED <<fnVars, edited, backs>>

\* line 137
SelectSize ==
    /\ session.step = 2
    /\ edits < MaxEdit
    /\ \E n \in (SizeChoices \cap Elements(available_sizes(session.step2_data.valve_type)))
                    \ {session.step2_data.valve_size_nominal} :
           session' = Rerun([session EXCEPT !.step2_data.valve_size_nominal = n])
    /\ edits' = edits + 1
    /\ UNCHANGED <<fnVars, edited, backs>>

\* line 141
EditFL ==
    /\ session.step = 2
    /\ edits < MaxEdit
    /\ \E v \in FLChoices \ {session.step2_data.fl} :
           session' = Rerun([session EXCEPT !.step2_data.fl = v])
    /\ edited' = TRUE
    /\ edits' = edits + 1
    /\ UNCHANGED <<fnVars, backs>>

\* line 142
EditKc ==
    /\ session.step = 2
    /\ edits < MaxEdit
    /\ \E v \in KcChoices \ {session.step2_data.kc} :
           session' = Rerun([session EXCEPT !.step2_data.kc = v])
    /\ edited' = TRUE
    /\ edits' = edits + 1
    /\ UNCHANGED <<fnVars, backs>>

\* lines 143..147
SaveStep2 ==
    /\ session.step = 2
    /\ session' = Enter(Del([session EXCEPT
                                !.input_data = Update(@, session.step2_data),
                                !.step = @ + 1],
                            "step2_data"))
    /\ UNCHANGED <<fnVars, edited, edits, backs>>

\* line 148
BackToStep1 ==
    /\ session.step = 2
    /\ backs < MaxBack
    /\ session' = Enter([session EXCEPT !.step = @ - 1])
    /\ backs' = backs + 1
    /\ UNCHANGED <<fnVars, edited, edits>>

\* line 204: step 2 starts again from its defaults
BackToStep2 ==
    /\ session.step = 3
    /\ backs < MaxBack
    /\ session' = Enter([session EXCEPT !.step = @ - 1])
    /\ edited' = FALSE
    /\ backs' = backs + 1
    /\ UNCHANGED <<fnVars, edits>>

\* line 205
ContinueToNoise ==
    /\ session.step = 3
    /\ session' = Enter([session EXCEPT !.step = @ + 1])
    /\ UNCHANGED <<fnVars, edited, edits, backs>>

\* line 222
BackToStep3 ==
    /\ session.step = 4
    /\ backs < MaxBack
    /\ session' = Enter([session EXCEPT !.step = @ - 1])
    /\ backs' = backs + 1
    /\ UNCHANGED <<fnVars, edited, edits>>

\* line 223
ContinueToActuator ==
    /\ session.step = 4
    /\ \E img \in PlotImagesOf([session EXCEPT !.step = @ + 1]) :
           session' = Late([session EXCEPT !.step = @ + 1], fail_positions[1], img)
    /\ UNCHANGED <<fnVars, edited, edits, backs>>

\* line 229
SelectFailPosition ==
    /\ session.step = 5
    /\ edits < MaxEdit
    /\ \E f \in Elements(fail_positions) \ {session.input_data.fail_position} :
       \E img \in PlotImagesOf(session) :
           session' = Late(session, f, img)
    /\ edits' = edits + 1
    /\ UNCHANGED <<fnVars, edited, backs>>

\* line 255
BackToStep4 ==
    /\ session.step = 5
    /\ step_5_buttons(session)
    /\ backs < MaxBack
    /\ session' = Enter([session EXCEPT !.step = @ - 1])
    /\ backs' = backs + 1
    /\ UNCHANGED <<fnVars, edited, edits>>

\* line 256
Finalize ==
    /\ session.step = 5
    /\ step_5_buttons(session)
    /\ session' = [session EXCEPT !.step = @ + 1]
    /\ UNCHANGED <<fnVars, edited, edits, backs>>

\* line 287
BackToStep5 ==
    /\ session.step = 6
    /\ backs < MaxBack
    /\ \E img \in PlotImagesOf([session EXCEPT !.step = @ - 1]) :
           session' = Late([session EXCEPT !.step = @ - 1], fail_positions[1], img)
    /\ backs' = backs + 1
    /\ UNCHANGED <<fnVars, edited, edits>>

Next ==
    \/ ToggleUnitSystem
    \/ EditStep1
    \/ SaveStep1
    \/ SelectValveType
    \/ SelectValveStyle
    \/ SelectValveChar
    \/ SelectSize
    \/ EditFL
    \/ EditKc
    \/ SaveStep2
    \/ BackToStep1
    \/ BackToStep2
    \/ ContinueToNoise
    \/ BackToStep3
    \/ ContinueToActuator
    \/ SelectFailPosition
    \/ BackToStep4
    \/ Finalize
    \/ BackToStep5

Spec == Init /\ [][Next]_vars

-----------------------------------------------------------------------------
(* Claim about step 2 of the wizard, checked under Spec *)

ReferenceOf(d) == get_valve_data(d.valve_type, d.valve_style)

\* C10: as long as the user has not typed into the FL and Kc fields, the fl and kc
\* that step 2 holds for saving, and the fl and kc it has saved into input_data,
\* are the reference FL and Kc of the selected (valve_type, valve_style) pair,
\* also right after a change of the valve type.
C10_SavedFlKcAreReference ==
    ~edited =>
        /\ session.step = 2 =>
              /\ session.step2_data.fl = ReferenceOf(session.step2_data).FL
              /\ session.step2_data.kc = ReferenceOf(session.step2_data).Kc
        /\ session.step \in {3, 4} =>
              /\ session.input_data.fl = ReferenceOf(session.input_data).FL
              /\ session.input_data.kc = ReferenceOf(session.input_data).Kc

-----------------------------------------------------------------------------
(* Harness for the reference lookups of data/valve_data.py: args is the      *)
(* <<valve_type, valve_style, valve_size>> looked up                         *)

LookupTypes == Elements(valve_types) \cup {"Gate"}
LookupStyles == {v[2] : v \in ValvePairs} \cup {"Default Style", "Unknown Trim"}
LookupSizes == DOMAIN VALVE_RATED_CVS \cup {0, 5}

InitLookup ==
    /\ call = "none"
    /\ WizardIdle
    /\ args \in LookupTypes \X LookupStyles \X LookupSizes
    /\ ret = Raised("none")

CallLookup ==
    /\ call = "none"
    /\ call' = "lookup"
    /\ ret' = [status |-> "ok",
               valve_data |-> get_valve_data(args[1], args[2]),
               valve_styles |-> get_valve_styles(args[1]),
               rated_cv |-> get_rated_cv(args[3])]
    /\ UNCHANGED <<args, wizVars>>

SpecLookup == InitLookup /\ [][CallLookup]_vars

-----------------------------------------------------------------------------
(* Claim about the reference lookups, checked under SpecLookup *)

LookupCalled == call = "lookup"
\* the positions of the looked-up style among the styles of the looked-up type
LookupEntries ==
    IF args[1] \in DOMAIN VALVE_COEFFICIENTS
    THEN {i \in DOMAIN VALVE_COEFFICIENTS[args[1]] :
              VALVE_COEFFICIENTS[args[1]][i].name = args[2]}
    ELSE {}
LookupDefault ==
    [FL |-> FxQ(9, 10), Kc |-> FxQ(7, 10), Xt |-> FxQ(75, 100), Rangeability |-> 30]
Coefficient4(d) == [FL |-> d.FL, Kc |-> d.Kc, Xt |-> d.Xt, Rangeability |-> d.Rangeability]

\* C11: the three lookups never fail.  get_valve_data returns the table entry of a
\* known (valve_type, valve_style) and otherwise FL 0.9, Kc 0.7, Xt 0.75,
\* Rangeability 30, also for a known type with an unknown style; get_valve_styles
\* returns the styles of a known type in table order and otherwise the single
\* placeholder style; get_rated_cv returns the table value of a listed size (50
\* for size 2) and 50 for every unlisted size (such as 5).
C11_LookupsFallBack ==
    LookupCalled =>
        /\ ret.status = "ok"
        /\ \A i \in LookupEntries :
               ret.valve_data = Coefficients(VALVE_COEFFICIENTS[args[1]][i])
        /\ LookupEntries = {} => Coefficient4(ret.valve_data) = LookupDefault
        /\ args[1] \in DOMAIN VALVE_COEFFICIENTS =>
               /\ Len(ret.valve_styles) = Len(VALVE_COEFFICIENTS[args[1]])
               /\ \A i \in DOMAIN ret.valve_styles :
                      ret.valve_styles[i] = VALVE_COEFFICIENTS[args[1]][i].name
        /\ args[1] \notin DOMAIN VALVE_COEFFICIENTS => ret.valve_styles = <<"Default Style">>
        /\ args[3] \in DOMAIN VALVE_RATED_CVS => ret.rated_cv = VALVE_RATED_CVS[args[3]]
        /\ args[3] \notin DOMAIN VALVE_RATED_CVS => ret.rated_cv = 50
        /\ args[3] \in {2, 5} => ret.rated_cv = 50

\* C11 witness: a known type looked up with a style of another type, and size 5
C11_Witness ==
    /\ LookupCalled
    /\ args[1] = "Butterfly" /\ args[2] = "Standard V-Notch" /\ args[3] = 5
    /\ Coefficient4(ret.valve_data) = LookupDefault
    /\ ret.rated_cv = 50

-----------------------------------------------------------------------------
(* Claims about the wizard, checked under Spec *)

InTables(d) ==
    /\ <<d.valve_type, d.valve_style>> \in ValvePairs
    /\ d.valve_size_nominal \in DOMAIN VALVE_RATED_CVS

\* C12: whatever the user does in step 2 (type, style and size changes, going
\* back to step 1 and returning), the (valve_type, valve_style) pair that step 2
\* holds and the pair saved into input_data are keys of the coefficient table,
\* and the nominal size is a key of the rated-Cv table; the rated-Cv table is
\* strictly increasing in the nominal size.
C12_SelectionInTables ==
    /\ Has(session, "step2_data") => InTables(session.step2_data)
    /\ Has(session.input_data, "valve_type") => InTables(session.input_data)
    /\ \A a, b \in DOMAIN VALVE_RATED_CVS :
           a < b => VALVE_RATED_CVS[a] < VALVE_RATED_CVS[b]

\* C12 witness: a rotary valve of size 30 saved after going back to step 1 and
\* returning to step 2
C12_Witness ==
    /\ session.step = 3
    /\ backs >= 1
    /\ session.input_data.valve_type # "Globe"
    /\ session.input_data.valve_size_nominal = 30
    /\ InTables(session.input_data)

-----------------------------------------------------------------------------
(* Harness for utils/unit_converters.py: args is <<converter, value,         *)
(* from_system, to_unit>>; a pressure conversion may be followed by the      *)
(* conversion back                                                           *)

MaxValue == 3

Converters == {"pressure", "flow_liquid", "density", "temperature", "flow_gas"}
ConvertValues ==
    {k * 10007 : k \in -MaxValue..MaxValue} \cup {k * 100003 : k \in -MaxValue..MaxValue}
ConvertSystems == DOMAIN UNITS \cup {"SI"}
ConvertUnits ==
    {"psi", "bar", "gpm", "m3/hr", "SG", "kg/m3", "F", "C", "scfh", "Nm3/hr", "psia", "R"}

Convert(converter, value, from_system, to_unit) ==
    IF converter = "pressure" THEN convert_pressure(value, from_system, to_unit)
    ELSE IF converter = "flow_liquid" THEN convert_flow_liquid(value, from_system, to_unit)
    ELSE IF converter = "density" THEN convert_density(value, from_system, to_unit)
    ELSE IF converter = "temperature" THEN convert_temperature(value, from_system, to_unit)
    ELSE convert_flow_gas(value, from_system, to_unit)

\* the system and the unit that undo a conversion between bar and psi
OtherSystem(from_system) == IF from_system = "Metric" THEN "Imperial" ELSE "Metric"
OtherUnit(to_unit) == IF to_unit = "psi" THEN "bar" ELSE "psi"

InitConvert ==
    /\ call = "none"
    /\ WizardIdle
    /\ args \in Converters \X ConvertValues \X ConvertSystems \X ConvertUnits
    /\ ret = Raised("none")

CallConvert ==
    /\ call = "none"
    /\ call' = "convert"
    /\ ret' = [status |-> "ok", value |-> Convert(args[1], args[2], args[3], args[4])]
    /\ UNCHANGED <<args, wizVars>>

CallConvertBack ==
    /\ call = "convert"
    /\ args[1] = "pressure"
    /\ <<args[3], args[4]>> \in {<<"Metric", "psi">>, <<"Imperial", "bar">>}
    /\ call' = "convert_back"
    /\ ret' = [status |-> "ok", converted |-> ret.value,
               value |-> convert_pressure(ret.value, OtherSystem(args[3]), OtherUnit(args[4]))]
    /\ UNCHANGED <<args, wizVars>>

NextConvert == CallConvert \/ CallConvertBack

SpecConvert == InitConvert /\ [][NextConvert]_vars

-----------------------------------------------------------------------------
(* Claims about the converters, checked under SpecConvert *)

\* the key of UNITS under which each converter's quantity is listed
QuantityOf(converter) == IF converter = "pressure" THEN "pressure"
                         ELSE IF converter = "flow_liquid" THEN "flow_liquid"
                         ELSE IF converter = "density" THEN "density"
                         ELSE IF converter = "temperature" THEN "temperature"
                         ELSE "flow_gas"
ToNativeUnit ==
    /\ args[3] \in DOMAIN UNITS
    /\ args[4] = UNITS[args[3]][QuantityOf(args[1])]

\* C13: each of the five converters returns the value unchanged, without an
\* error, when the target is the native unit of the value's own unit system, and
\* for every target unit when from_system is neither Metric nor Imperial.
C13_NativeAndUnknownAreIdentity ==
    call = "convert" =>
        /\ ret.status = "ok"
        /\ ToNativeUnit => ret.value = args[2]
        /\ args[3] \notin {"Metric", "Imperial"} => ret.value = args[2]

\* C13 witness: a temperature in Fahrenheit converted to Fahrenheit
C13_Witness ==
    /\ call = "convert"
    /\ args[1] = "temperature" /\ args[3] = "Imperial" /\ args[4] = "F" /\ args[2] # 0
    /\ ret.value = args[2]

\* the error the fixed-point resolution allows after x * BAR_TO_PSI / BAR_TO_PSI
\* or x / BAR_TO_PSI * BAR_TO_PSI: one unit, scaled by BAR_TO_PSI, rounded up
RoundTripTolerance == (BAR_TO_PSI \div BarToPsiDen) + 2

\* C14: a pressure converted from bar to psi and back, or from psi to bar and
\* back, equals the original value within tolerance.
C14_PressureRoundTrip ==
    call = "convert_back" => Abs(ret.value - args[2]) <= RoundTripTolerance

\* C14 witness: a round trip that started from psi and changed the value on the way
C14_Witness ==
    /\ call = "convert_back"
    /\ args[3] = "Imperial" /\ args[2] > Fx(10)
    /\ ret.converted # args[2]
    /\ Abs(ret.value - args[2]) <= RoundTripTolerance

\* the sizing call of step 3 on the inputs d, lines 154..157
SizingOf(d) ==
    IF d.fluid_type = "Liquid" THEN calculate_liquid_cv(d) ELSE calculate_gas_cv(d)
\* the results hold the cv of the sizing outcome r
HoldsCvOf(results, r) == Has(results, "cv") /\ r.status = "ok" /\ r.cv = results.cv

\* C17: whenever the wizard is at step 4, 5 or 6, results holds a cv, and it is
\* the cv the sizing calculator computes from the current input_data: step 4 or
\* later is never reached after a failed sizing, neither without a cv nor with
\* the cv of an earlier run.
C17_CvIsCurrent ==
    session.step \in {4, 5, 6} =>
        HoldsCvOf(session.results, SizingOf(session.input_data))

\* C18: at step 5 the unit system selected in the sidebar, whose force and torque
\* units label the actuator value, is the unit system stored in input_data when
\* step 1 was saved, in which size_actuator computed the value.
C18_LabelMatchesValue ==
    session.step = 5 =>
        /\ session.unit_system = session.input_data.unit_system
        /\ get_units(session.unit_system).force = session.input_data.units.force
        /\ get_units(session.unit_system).torque = session.input_data.units.torque

\* C19: the step stays within 1..6, and at every step >= 2 the stored input_data
\* has p1 > p2 and dp = p1 - p2 > 0: step 1 is left only through its save, which
\* requires p1 > p2.
C19_StepsAndPressureDrop ==
    /\ session.step \in 1..6
    /\ session.step >= 2 =>
          /\ session.input_data.p1 > session.input_data.p2
          /\ session.input_data.dp = session.input_data.p1 - session.input_data.p2
          /\ session.input_data.dp > 0

\* C19 witness: the last step, reached after going back once and with an edit
\* made on the way, with the saved pressures in order
C19_Witness ==
    /\ session.step = 6 /\ backs >= 1 /\ edits >= 1
    /\ session.input_data.p1 > session.input_data.p2
    /\ session.input_data.dp = session.input_data.p1 - session.input_data.p2

====
